---- MODULE Spec2Model ----
(***************************************************************************)
(* AIND-Recognizer: the maximum-likelihood recognizer (my_recognizer.py)   *)
(* and the model-order selectors (my_model_selectors.py).                  *)
(*                                                                         *)
(* The HMM library (GaussianHMM.fit / .score) and KFold are collaborators  *)
(* outside the repository: they are modelled as an environment that        *)
(* answers each call with "raises" or with a value.  fit and score are     *)
(* seeded (random_state): a call repeated on the same data gets the same   *)
(* answer.  KFold(shuffle=True) is given no random_state and draws a fresh *)
(* permutation at every split.                                             *)
(***************************************************************************)
EXTENDS Integers, Sequences, FiniteSets, TLC

\* ------------------------------------------------------------------ bounds
MaxCats == 2       \* categories in the recognizer's model map
MaxItems == 2      \* test items
MaxMag == 1        \* log-likelihoods are drawn from -MaxMag..0
MaxK == 3          \* largest max_n_components
MaxSeqs == 4       \* sequences of the selector's word
MaxSeqLen == 2     \* rows of one sequence
MaxDim == 2        \* features per row
MaxWords == 3      \* words of the training corpus

\* ------------------------------------------------------ program constants
MinK == 2          \* min_n_components' default
MaxFolds == 3      \* min(3, len(self.sequences))

\* --------------------------------------------------------- Python values
\* None, and a present value, as a sequence of length 0 or 1.
None == << >>
Some(x) == << x >>

\* A Python float: a finite value n/d (d > 0), an infinity or NaN.
Fin(n) == [k |-> "fin", n |-> n, d |-> 1]
PInf == [k |-> "pinf", n |-> 0, d |-> 1]
NInf == [k |-> "ninf", n |-> 0, d |-> 1]
NaN == [k |-> "nan", n |-> 0, d |-> 1]
\* The outcome of a call that raised.
Raise == [k |-> "raise", n |-> 0, d |-> 1]
\* The outcome of fit(...).score(...) when fit itself raised.
FitRaise == [k |-> "fitraise", n |-> 0, d |-> 1]

Abs(i) == IF i < 0 THEN -i ELSE i

RECURSIVE Gcd(_, _)
Gcd(a, b) == IF b = 0 THEN a ELSE Gcd(b, a % b)

\* n/d in lowest terms.
Rat(n, d) ==
    LET g == Gcd(Abs(n), d)
    IN  [k |-> "fin", n |-> n \div g, d |-> d \div g]

\* a > b on floats: every comparison with NaN is false.
FGt(a, b) ==
    CASE a.k = "nan" \/ b.k = "nan" -> FALSE
      [] a.k = "pinf" -> b.k # "pinf"
      [] a.k = "ninf" -> FALSE
      [] b.k = "pinf" -> FALSE
      [] b.k = "ninf" -> TRUE
      [] OTHER -> a.n * b.d > b.n * a.d

\* a < b on floats.
FLt(a, b) == FGt(b, a)

\* Arithmetic, on finite floats (the selectors compute with log-likelihoods
\* model.score returned; rounding is left out).
FAdd(a, b) == Rat(a.n * b.d + b.n * a.d, a.d * b.d)
FSub(a, b) == Rat(a.n * b.d - b.n * a.d, a.d * b.d)
FMulInt(a, i) == Rat(a.n * i, a.d)
\* a / i for i > 0; i = 0 raises ZeroDivisionError at the caller.
FDivInt(a, i) == Rat(a.n, a.d * i)

\* math.log(N), in thousandths.
LogMilli ==
    << 0, 693, 1099, 1386, 1609, 1792, 1946, 2079, 2197, 2303,
       2398, 2485, 2565, 2639, 2708, 2773, 2833, 2890, 2944, 2996 >>
MathLog(N) == Rat(LogMilli[N], 1000)

RECURSIVE SumSeq(_)
SumSeq(q) == IF q = << >> THEN 0 ELSE Head(q) + SumSeq(Tail(q))

\* ---------------------------------------------------------------- state
VARIABLES
    models,              \* recognize: the model map's keys in iteration order
    n_items,             \* recognize: len(test_sequences)
    rpc,                 \* recognize: position in the function
    cat,                 \* recognize: index of the inner loop in models
    word_probabilities,  \* recognize: this item's score map
    rbest_score,         \* recognize: best_score
    guess,               \* recognize: guess
    probabilities,       \* recognize: the list returned first
    guesses,             \* recognize: the list returned second
    outcomes,            \* history: what model.score answered, per item and key
    \* the selector's construction (ModelSelector.__init__)
    strategy,            \* which subclass: "Fixed", "BIC", "DIC", "CV"
    lengths,             \* self.lengths; len(self.sequences) = Len(lengths)
    dim,                 \* len(self.X[0])
    n_words,             \* len(self.hwords); the words are 1 .. n_words
    this_word,           \* self.this_word
    min_n,               \* self.min_n_components
    max_n,               \* self.max_n_components
    n_constant,          \* self.n_constant
    \* the library's answers
    trainMemo,           \* K -> whether fit(self.X, self.lengths) succeeded
    scoreEnv,            \* <<K, w>> -> the K-state model's score on word w
    foldEnv,             \* <<K, test fold>> -> fit on the rest, score on it
    \* select()
    pc,                  \* position in select()
    n_components,        \* the loop variable
    best_score,
    best_n_components,
    model,               \* None or the model fit() returned
    logl,
    anti_logl,
    word,                \* DIC: position in self.hwords
    scored_others,       \* history: the words DIC scored as "others" for this K
    others_sum,          \* history: the sum of what those scorings returned
    n_folds,             \* CV: folds
    total_score,
    ave_score,
    used,                \* CV: indices of the test folds yielded so far
    fold_idx,            \* CV: folds consumed so far
    plan_fail,           \* history: this K's folds whose fit or score raises
    plan_sum,            \* history: the sum of the other folds' scores
    hist,                \* history: K -> how the search's evaluation of K went
    next_obj,            \* the next fresh object identity
    search_objs,         \* history: identities of the models the search fitted
    result,              \* what select() returned
    first_choice,        \* history: the K the previous select() chose
    runs_left            \* further select() calls to come

recVars == << models, n_items, rpc, cat, word_probabilities, rbest_score,
              guess, probabilities, guesses, outcomes >>
cfgVars == << strategy, lengths, dim, n_words, this_word, min_n, max_n,
              n_constant >>
envVars == << trainMemo, scoreEnv, foldEnv >>
loopVars == << n_components, best_score, best_n_components >>
objVars == << model, next_obj, search_objs >>
dicVars == << logl, anti_logl, word, scored_others, others_sum >>
cvVars == << n_folds, total_score, ave_score, used, fold_idx, plan_fail,
             plan_sum >>
outVars == << result, first_choice, runs_left >>
selVars == << cfgVars, envVars, pc, loopVars, objVars, dicVars, cvVars, hist,
              outVars >>

vars == << recVars, selVars >>

\* dict keys are unique and their names are arbitrary: the model map is
\* its keys in iteration order, the i-th key being named i.
ModelMaps == { [i \in 1 .. len |-> i] : len \in 0 .. MaxCats }

Keys(m) == { m[i] : i \in 1 .. Len(m) }

LogLs == { Fin(-v) : v \in 0 .. MaxMag }

\* What model.score(X_test, lengths_test) can hand back to recognize(): a
\* log-likelihood, among them that of probability zero.
TestScores == LogLs \cup { NInf }

EmptyMap == [c \in {} |-> NaN]

\* No selector is running.
SelIdle ==
    /\ strategy = "none"
    /\ lengths = << >>
    /\ dim = 0 /\ n_words = 0 /\ this_word = 0
    /\ min_n = 0 /\ max_n = 0 /\ n_constant = 0
    /\ trainMemo = EmptyMap /\ scoreEnv = EmptyMap /\ foldEnv = EmptyMap
    /\ pc = "idle"
    /\ n_components = 0 /\ best_score = NInf /\ best_n_components = 0
    /\ model = None /\ next_obj = 1 /\ search_objs = {}
    /\ logl = Fin(0) /\ anti_logl = Fin(0) /\ word = 0
    /\ scored_others = {} /\ others_sum = 0
    /\ n_folds = 0 /\ total_score = Fin(0) /\ ave_score = Fin(0)
    /\ used = {} /\ fold_idx = 0 /\ plan_fail = 0 /\ plan_sum = 0
    /\ hist = EmptyMap
    /\ result = None /\ first_choice = None /\ runs_left = 0

RecInit ==
    /\ SelIdle
    /\ models \in ModelMaps
    /\ n_items \in 0 .. MaxItems
    /\ rpc = "loop"
    /\ cat = 0
    /\ word_probabilities = EmptyMap
    /\ rbest_score = NInf
    /\ guess = None
    /\ probabilities = << >>
    /\ guesses = << >>
    /\ outcomes = << >>

\* for X_test, lengths_test in test_sequences: the three assignments.
RecNextItem ==
    /\ rpc = "loop"
    /\ Len(guesses) < n_items
    /\ word_probabilities' = EmptyMap
    /\ rbest_score' = NInf
    /\ guess' = None
    /\ cat' = 1
    /\ rpc' = "scan"
    /\ outcomes' = Append(outcomes, EmptyMap)
    /\ UNCHANGED selVars
    /\ UNCHANGED << models, n_items, probabilities, guesses >>

RecordOutcome(o) ==
    [outcomes EXCEPT ![Len(outcomes)] = @ @@ (models[cat] :> o)]

\* if score > best_score
RecBetter(score) == FGt(score, rbest_score)

\* try: score = model.score(...); record it; track the maximum.
RecScore ==
    /\ rpc = "scan"
    /\ cat <= Len(models)
    /\ \E score \in TestScores :
         /\ word_probabilities' = word_probabilities @@ (models[cat] :> score)
         /\ IF RecBetter(score)
              THEN rbest_score' = score /\ guess' = Some(models[cat])
              ELSE UNCHANGED << rbest_score, guess >>
         /\ outcomes' = RecordOutcome(score)
    /\ cat' = cat + 1
    /\ UNCHANGED selVars
    /\ UNCHANGED << models, n_items, rpc, probabilities, guesses >>

\* except: pass
RecScoreRaises ==
    /\ rpc = "scan"
    /\ cat <= Len(models)
    /\ outcomes' = RecordOutcome(Raise)
    /\ cat' = cat + 1
    /\ UNCHANGED selVars
    /\ UNCHANGED << models, n_items, rpc, word_probabilities, rbest_score,
                    guess, probabilities, guesses >>

\* Variant: the new entry is put in front.
RecCollectMutPrepend(list, x) == << x >> \o list

\* list.append(x)
RecCollect(list, x) == Append(list, x)

\* probabilities.append(word_probabilities); guesses.append(guess)
RecAppend ==
    /\ rpc = "scan"
    /\ cat > Len(models)
    /\ probabilities' = RecCollect(probabilities, word_probabilities)
    /\ guesses' = RecCollect(guesses, guess)
    /\ rpc' = "loop"
    /\ UNCHANGED selVars
    /\ UNCHANGED << models, n_items, cat, word_probabilities, rbest_score,
                    guess, outcomes >>

\* return probabilities, guesses
RecReturn ==
    /\ rpc = "loop"
    /\ Len(guesses) = n_items
    /\ rpc' = "done"
    /\ UNCHANGED selVars
    /\ UNCHANGED << models, n_items, cat, word_probabilities, rbest_score,
                    guess, probabilities, guesses, outcomes >>

RecNext == RecNextItem \/ RecScore \/ RecScoreRaises \/ RecAppend \/ RecReturn

SpecRecognize == RecInit /\ [][RecNext]_vars

\* ------------------------------------------------------------- selectors
NConstant == 3     \* n_constant's default

Ones(n) == [i \in 1 .. n |-> 1]

\* The lengths of a word's sequences; the selectors use their number and
\* their sum, which the order does not change: they are listed ascending.
LengthLists ==
    UNION { { q \in [1 .. n -> 1 .. MaxSeqLen] :
                \A i, j \in 1 .. n : i < j => q[i] <= q[j] } :
            n \in 1 .. MaxSeqs }

Ranges == { r \in (MinK .. MaxK) \X (MinK .. MaxK) : r[1] <= r[2] }

Corpora == { c \in (1 .. MaxWords) \X (1 .. MaxWords) : c[2] <= c[1] }

Config(s, ls, d, corpus, r, nc) ==
    [strategy |-> s, lengths |-> ls, dim |-> d, n_words |-> corpus[1],
     this_word |-> corpus[2], min_n |-> r[1], max_n |-> r[2],
     n_constant |-> nc]

\* The constructions explored.  What a strategy never reads is held at one
\* value: SelectorConstant reads n_constant only, SelectorBIC the data's
\* shape, SelectorDIC the corpus, SelectorCV the number of sequences.
FixedConfigs ==
    { Config("Fixed", Ones(1), 1, << 1, 1 >>, << MinK, MaxK >>, nc) :
        nc \in 0 .. MaxK }
BICConfigs ==
    { Config("BIC", c[1], c[2], << 1, 1 >>, c[3], NConstant) :
        c \in LengthLists \X (1 .. MaxDim) \X Ranges }
DICConfigs ==
    { Config("DIC", Ones(1), 1, c[1], c[2], NConstant) :
        c \in Corpora \X Ranges }
CVConfigs ==
    { Config("CV", Ones(c[1]), 1, << 1, 1 >>, c[2], NConstant) :
        c \in (1 .. MaxSeqs) \X Ranges }
Configs == FixedConfigs \cup BICConfigs \cup DICConfigs \cup CVConfigs

\* ModelSelector.__init__
Construct(c) ==
    /\ strategy = c.strategy
    /\ lengths = c.lengths
    /\ dim = c.dim
    /\ n_words = c.n_words
    /\ this_word = c.this_word
    /\ min_n = c.min_n
    /\ max_n = c.max_n
    /\ n_constant = c.n_constant

\* No recognition is running.
RecIdle ==
    /\ models = << >> /\ n_items = 0 /\ rpc = "idle" /\ cat = 0
    /\ word_probabilities = EmptyMap /\ rbest_score = NInf /\ guess = None
    /\ probabilities = << >> /\ guesses = << >> /\ outcomes = << >>

\* The state select() is entered in.
Entry ==
    /\ pc = "select"
    /\ n_components = 0 /\ best_score = NInf /\ best_n_components = 0
    /\ model = None /\ search_objs = {}
    /\ logl = Fin(0) /\ anti_logl = Fin(0) /\ word = 0
    /\ scored_others = {} /\ others_sum = 0
    /\ n_folds = 0 /\ total_score = Fin(0) /\ ave_score = Fin(0)
    /\ used = {} /\ fold_idx = 0 /\ plan_fail = 0 /\ plan_sum = 0
    /\ hist = EmptyMap
    /\ result = None

\* One select(): within it no score or fold is asked for twice, so the
\* library's answers to those calls are drawn when the call is made.
SelInit ==
    /\ RecIdle
    /\ \E c \in Configs : Construct(c)
    /\ trainMemo = EmptyMap /\ scoreEnv = EmptyMap /\ foldEnv = EmptyMap
    /\ Entry
    /\ next_obj = 1
    /\ first_choice = None
    /\ runs_left = 0

\* GaussianHMM(n_components=K, random_state=self.random_state).fit(self.X,
\* self.lengths): the same answer at every call; no model has 0 states.
TrainAnswers(K) ==
    IF K < 1 THEN { FALSE }
    ELSE IF K \in DOMAIN trainMemo THEN { trainMemo[K] }
    ELSE BOOLEAN

\* model.score(X, lengths) on word w's data; None has no score method.
ScoreAnswers(K, w) ==
    IF model = None THEN { Raise }
    ELSE IF << K, w >> \in DOMAIN scoreEnv THEN { scoreEnv[<< K, w >>] }
    ELSE LogLs \cup { Raise }

\* A fitted model: a fresh identity, its number of states, and whether it
\* was fitted to all of the word's data.
Model(K, whole) == [id |-> next_obj, k |-> K, whole |-> whole]

\* Variant: the last model the search held is handed back.
ReturnedMutStale(K, ok) == model

\* base_model: return hmm_model / except: return None
Returned(K, ok) == IF ok THEN Some(Model(K, TRUE)) ELSE None

\* base_model(K), answered ok: what it leaves behind besides its result.
BaseModel(K, ok) ==
    /\ ok \in TrainAnswers(K)
    /\ trainMemo' = IF K < 1 \/ K \in DOMAIN trainMemo THEN trainMemo
                    ELSE trainMemo @@ (K :> ok)
    /\ next_obj' = IF ok THEN next_obj + 1 ELSE next_obj

\* SelectorConstant.select
FixedSelect ==
    /\ pc = "select"
    /\ strategy = "Fixed"
    /\ \E ok \in BOOLEAN :
         /\ BaseModel(n_constant, ok)
         /\ result' = Returned(n_constant, ok)
    /\ best_n_components' = n_constant
    /\ pc' = "done"
    /\ UNCHANGED << recVars, cfgVars, scoreEnv, foldEnv, n_components,
                    best_score, model, search_objs, dicVars, cvVars, hist,
                    first_choice, runs_left >>

\* SelectorBIC.select: best_score = float("inf"); best_n_components = 0
BICBegin ==
    /\ pc = "select"
    /\ strategy = "BIC"
    /\ best_score' = PInf
    /\ best_n_components' = 0
    /\ n_components' = min_n
    /\ pc' = "loop"
    /\ UNCHANGED << recVars, cfgVars, envVars, objVars, dicVars, cvVars, hist,
                    outVars >>

\* model = self.base_model(n_component), in BIC's and DIC's loops
SearchTrain ==
    /\ pc = "loop"
    /\ strategy \in { "BIC", "DIC" }
    /\ n_components <= max_n
    /\ \E ok \in BOOLEAN :
         /\ BaseModel(n_components, ok)
         /\ model' = Returned(n_components, ok)
         /\ search_objs' = IF ok THEN search_objs \cup { next_obj }
                           ELSE search_objs
    /\ pc' = "score"
    /\ UNCHANGED << recVars, cfgVars, scoreEnv, foldEnv, loopVars, dicVars,
                    cvVars, hist, outVars >>

\* How the search's evaluation of one K went, in BIC and DIC: whether the
\* model was trained and scored on the word's own data, whether the try
\* block reached its comparison, and what the scorings returned.
Trained(l, a) == [self_ok |-> TRUE, fitted |-> TRUE, logl |-> l, anti |-> a]
Skipped(self_ok) ==
    [self_ok |-> self_ok, fitted |-> FALSE, logl |-> 0, anti |-> 0]

\* Variant: N counts the sequences, not the rows.
RowsMutSequences == Len(lengths)

\* len(self.X): the rows of all the word's sequences
Rows == SumSeq(lengths)

\* parameters = n_component ** 2 + (2 * n_component * len(self.X[0]) - 1)
Parameters(K) == K * K + (2 * K * dim - 1)

\* bic_score = -2 * logl + parameters * math.log(len(self.X))
BicScore(K, l) == FAdd(FMulInt(l, -2), FMulInt(MathLog(Rows), Parameters(K)))

\* if bic_score < best_score
BicBetter(score) == FLt(score, best_score)

\* logl = model.score(self.X, self.lengths) returns; the score is compared.
BICScore ==
    /\ pc = "score"
    /\ strategy = "BIC"
    /\ \E l \in ScoreAnswers(n_components, this_word) \ { Raise } :
         /\ IF BicBetter(BicScore(n_components, l))
              THEN /\ best_score' = BicScore(n_components, l)
                   /\ best_n_components' = n_components
              ELSE UNCHANGED << best_score, best_n_components >>
         /\ hist' = hist @@ (n_components :> Trained(l.n, 0))
    /\ n_components' = n_components + 1
    /\ pc' = "loop"
    /\ UNCHANGED << recVars, cfgVars, envVars, objVars, dicVars, cvVars,
                    outVars >>

\* model.score raises (model is None, or the library fails): except: pass
BICScoreRaises ==
    /\ pc = "score"
    /\ strategy = "BIC"
    /\ Raise \in ScoreAnswers(n_components, this_word)
    /\ hist' = hist @@ (n_components :> Skipped(FALSE))
    /\ n_components' = n_components + 1
    /\ pc' = "loop"
    /\ UNCHANGED << recVars, cfgVars, envVars, best_score, best_n_components,
                    objVars, dicVars, cvVars, outVars >>

\* SelectorDIC.select: best_n_components = 0; best_score = float("-inf")
DICBegin ==
    /\ pc = "select"
    /\ strategy = "DIC"
    /\ best_n_components' = 0
    /\ best_score' = NInf
    /\ n_components' = min_n
    /\ pc' = "loop"
    /\ UNCHANGED << recVars, cfgVars, envVars, objVars, dicVars, cvVars, hist,
                    outVars >>

\* logl = model.score(self.X, self.lengths) returns; anti_logl = 0
DICScoreSelf ==
    /\ pc = "score"
    /\ strategy = "DIC"
    /\ \E l \in ScoreAnswers(n_components, this_word) \ { Raise } : logl' = l
    /\ anti_logl' = Fin(0)
    /\ word' = 1
    /\ scored_others' = {}
    /\ others_sum' = 0
    /\ pc' = "others"
    /\ UNCHANGED << recVars, cfgVars, envVars, loopVars, objVars, cvVars,
                    hist, outVars >>

\* model.score(self.X, self.lengths) raises: except: pass
DICScoreSelfRaises ==
    /\ pc = "score"
    /\ strategy = "DIC"
    /\ Raise \in ScoreAnswers(n_components, this_word)
    /\ hist' = hist @@ (n_components :> Skipped(FALSE))
    /\ n_components' = n_components + 1
    /\ pc' = "loop"
    /\ UNCHANGED << recVars, cfgVars, envVars, best_score, best_n_components,
                    objVars, dicVars, cvVars, outVars >>

\* Variant: the target is scored among the others.
IsOtherMutAll(w) == TRUE

\* if word != self.this_word
IsOther(w) == w # this_word

\* for word in self.hwords: the target itself is passed over
DICSkipSelf ==
    /\ pc = "others"
    /\ word <= n_words
    /\ ~IsOther(word)
    /\ word' = word + 1
    /\ UNCHANGED << recVars, cfgVars, envVars, pc, loopVars, objVars, logl,
                    anti_logl, scored_others, others_sum, cvVars, hist,
                    outVars >>

\* anti_logl += model.score(X, length)
DICScoreOther ==
    /\ pc = "others"
    /\ word <= n_words
    /\ IsOther(word)
    /\ \E a \in ScoreAnswers(n_components, word) \ { Raise } :
         /\ anti_logl' = FAdd(anti_logl, a)
         /\ others_sum' = others_sum + a.n
    /\ scored_others' = scored_others \cup { word }
    /\ word' = word + 1
    /\ UNCHANGED << recVars, cfgVars, envVars, pc, loopVars, objVars, logl,
                    cvVars, hist, outVars >>

\* model.score(X, length) raises: except: pass
DICScoreOtherRaises ==
    /\ pc = "others"
    /\ word <= n_words
    /\ IsOther(word)
    /\ Raise \in ScoreAnswers(n_components, word)
    /\ hist' = hist @@ (n_components :> Skipped(TRUE))
    /\ scored_others' = {}
    /\ others_sum' = 0
    /\ n_components' = n_components + 1
    /\ pc' = "loop"
    /\ UNCHANGED << recVars, cfgVars, envVars, best_score, best_n_components,
                    objVars, logl, anti_logl, word, cvVars, outVars >>

\* Variant: the sum is divided by the number of words.
DivisorMutCount == n_words

\* len(self.hwords) - 1
Divisor == n_words - 1

\* dic_score = logl - anti_logl / (len(self.hwords) - 1)
DicScore == FSub(logl, FDivInt(anti_logl, Divisor))

\* if dic_score > best_score
DicBetter(score) == FGt(score, best_score)

\* The division succeeds and the score is compared.
DICCompare ==
    /\ pc = "others"
    /\ word > n_words
    /\ Divisor # 0
    /\ IF DicBetter(DicScore)
         THEN /\ best_score' = DicScore
              /\ best_n_components' = n_components
         ELSE UNCHANGED << best_score, best_n_components >>
    /\ hist' = hist @@ (n_components :> Trained(logl.n, others_sum))
    /\ scored_others' = {}
    /\ others_sum' = 0
    /\ n_components' = n_components + 1
    /\ pc' = "loop"
    /\ UNCHANGED << recVars, cfgVars, envVars, objVars, logl, anti_logl, word,
                    cvVars, outVars >>

\* The division raises ZeroDivisionError: except: pass
DICDivideRaises ==
    /\ pc = "others"
    /\ word > n_words
    /\ Divisor = 0
    /\ hist' = hist @@ (n_components :> Skipped(TRUE))
    /\ scored_others' = {}
    /\ others_sum' = 0
    /\ n_components' = n_components + 1
    /\ pc' = "loop"
    /\ UNCHANGED << recVars, cfgVars, envVars, best_score, best_n_components,
                    objVars, logl, anti_logl, word, cvVars, outVars >>

Min(a, b) == IF a < b THEN a ELSE b

\* SelectorCV.select: best_score = float("-inf"); best_n_components = 0;
\* folds = min(3, len(self.sequences))
CVBegin ==
    /\ pc = "select"
    /\ strategy = "CV"
    /\ best_score' = NInf
    /\ best_n_components' = 0
    /\ n_folds' = Min(MaxFolds, Len(lengths))
    /\ n_components' = min_n
    /\ pc' = "loop"
    /\ UNCHANGED << recVars, cfgVars, envVars, objVars, dicVars, total_score,
                    ave_score, used, fold_idx, plan_fail, plan_sum, hist,
                    outVars >>

\* total_score = 0; ave_score = 0; if folds < 2
CVBeginK ==
    /\ pc = "loop"
    /\ strategy = "CV"
    /\ n_components <= max_n
    /\ total_score' = Fin(0)
    /\ ave_score' = Fin(0)
    /\ pc' = IF n_folds < 2 THEN "cv_train" ELSE "cv_split"
    /\ UNCHANGED << recVars, cfgVars, envVars, loopVars, objVars, dicVars,
                    n_folds, used, fold_idx, plan_fail, plan_sum, hist,
                    outVars >>

\* folds < 2: model = self.base_model(n_components)
CVWholeTrain ==
    /\ pc = "cv_train"
    /\ \E ok \in BOOLEAN :
         /\ BaseModel(n_components, ok)
         /\ model' = Returned(n_components, ok)
         /\ search_objs' = IF ok THEN search_objs \cup { next_obj }
                           ELSE search_objs
    /\ pc' = "cv_score"
    /\ UNCHANGED << recVars, cfgVars, scoreEnv, foldEnv, loopVars, dicVars,
                    cvVars, hist, outVars >>

\* folds < 2: ave_score = model.score(self.X, self.lengths) returns
CVWholeScore ==
    /\ pc = "cv_score"
    /\ \E l \in ScoreAnswers(n_components, this_word) \ { Raise } :
         /\ ave_score' = l
         /\ plan_sum' = l.n
    /\ plan_fail' = 0
    /\ fold_idx' = 1
    /\ pc' = "cv_compare"
    /\ UNCHANGED << recVars, cfgVars, envVars, loopVars, objVars, dicVars,
                    n_folds, total_score, used, hist, outVars >>

\* folds < 2: model.score raises (model is None, or the library fails)
CVWholeScoreRaises ==
    /\ pc = "cv_score"
    /\ Raise \in ScoreAnswers(n_components, this_word)
    /\ plan_sum' = 0
    /\ plan_fail' = 1
    /\ fold_idx' = 1
    /\ pc' = "cv_compare"
    /\ UNCHANGED << recVars, cfgVars, envVars, loopVars, objVars, dicVars,
                    n_folds, total_score, ave_score, used, hist, outVars >>

\* KFold: the first n % folds test folds hold n // folds + 1 indices, the
\* others n // folds.
FoldSize(n, i) == (n \div n_folds) + (IF i <= n % n_folds THEN 1 ELSE 0)

\* KFold(n_splits=folds, shuffle=True): no random_state, so the indices are
\* permuted anyhow and cut in order: test fold i is any FoldSize(n, i) of
\* the indices the folds before it left.  The ways to lay out folds i, i + 1,
\* ... over the indices avail:
RECURSIVE Shuffles(_, _)
Shuffles(avail, i) ==
    IF i > n_folds THEN { << >> }
    ELSE UNION { { << S >> \o rest : rest \in Shuffles(avail \ S, i + 1) } :
                 S \in { T \in SUBSET avail :
                           Cardinality(T) = FoldSize(Len(lengths), i) } }

\* split_method.split(self.sequences): the generator is made.  It draws
\* its permutation once; the model reveals it one test fold at a time, and
\* keeps the indices of the folds already yielded.
CVSplit ==
    /\ pc = "cv_split"
    /\ used' = {}
    /\ fold_idx' = 0
    /\ plan_fail' = 0
    /\ plan_sum' = 0
    /\ pc' = "cv_fold"
    /\ UNCHANGED << recVars, cfgVars, envVars, loopVars, objVars, dicVars,
                    n_folds, total_score, ave_score, hist, outVars >>

\* The fold at hand and those after it, in the splits that agree with the
\* folds yielded so far.
Splits == Shuffles((1 .. Len(lengths)) \ used, fold_idx + 1)

\* GaussianHMM(...).fit(X_train, lengths_train) then model.score(X_test,
\* lengths_test), for the test fold S: a score, or one of the two raises.
FoldAnswers(K, S) ==
    IF << K, S >> \in DOMAIN foldEnv THEN { foldEnv[<< K, S >>] }
    ELSE LogLs \cup { Raise, FitRaise }

\* One fold: the model is fitted and total_score += model.score(...)
CVFold ==
    /\ pc = "cv_fold"
    /\ fold_idx < n_folds
    /\ \E S \in { split[1] : split \in Splits } :
         /\ used' = used \cup S
         /\ \E v \in FoldAnswers(n_components, S) \ { Raise, FitRaise } :
              /\ total_score' = FAdd(total_score, v)
              /\ plan_sum' = plan_sum + v.n
    /\ model' = Some(Model(n_components, FALSE))
    /\ next_obj' = next_obj + 1
    /\ search_objs' = search_objs \cup { next_obj }
    /\ fold_idx' = fold_idx + 1
    /\ UNCHANGED << recVars, cfgVars, envVars, pc, loopVars, dicVars, n_folds,
                    ave_score, plan_fail, hist, outVars >>

LaterAnswers ==
    [1 .. (n_folds - fold_idx - 1) -> LogLs \cup { Raise, FitRaise }]

\* The fold at hand raises with answer r.  The folds after it are never
\* reached: what the library would answer on them is counted all the same
\* (how many fail, and the sum of the scores of the others).
FoldRaises(r) ==
    \E split \in Splits :
       /\ r \in FoldAnswers(n_components, split[1])
       /\ used' = used \cup split[1]
       /\ \E rest \in LaterAnswers :
            /\ \A j \in DOMAIN rest :
                 rest[j] \in FoldAnswers(n_components, split[1 + j])
            /\ plan_fail' =
                 1 + Cardinality({ j \in DOMAIN rest : rest[j].k # "fin" })
            /\ plan_sum' = plan_sum
                 + SumSeq([j \in DOMAIN rest |->
                             IF rest[j].k = "fin" THEN rest[j].n ELSE 0])

\* One fold: fit raises: except: pass
CVFoldFitRaises ==
    /\ pc = "cv_fold"
    /\ fold_idx < n_folds
    /\ FoldRaises(FitRaise)
    /\ fold_idx' = fold_idx + 1
    /\ pc' = "cv_compare"
    /\ UNCHANGED << recVars, cfgVars, envVars, loopVars, objVars, dicVars,
                    n_folds, total_score, ave_score, hist, outVars >>

\* One fold: the model is fitted and model.score raises: except: pass
CVFoldScoreRaises ==
    /\ pc = "cv_fold"
    /\ fold_idx < n_folds
    /\ FoldRaises(Raise)
    /\ model' = Some(Model(n_components, FALSE))
    /\ next_obj' = next_obj + 1
    /\ search_objs' = search_objs \cup { next_obj }
    /\ fold_idx' = fold_idx + 1
    /\ pc' = "cv_compare"
    /\ UNCHANGED << recVars, cfgVars, envVars, loopVars, dicVars, n_folds,
                    total_score, ave_score, hist, outVars >>

\* ave_score = total_score / folds
CVAverage ==
    /\ pc = "cv_fold"
    /\ fold_idx = n_folds
    /\ ave_score' = FDivInt(total_score, n_folds)
    /\ pc' = "cv_compare"
    /\ UNCHANGED << recVars, cfgVars, envVars, loopVars, objVars, dicVars,
                    n_folds, total_score, used, fold_idx, plan_fail,
                    plan_sum, hist, outVars >>

\* How the evaluation of one K went, in CV: the folds of the split, those
\* whose training or scoring fails, and the sum of the other folds' scores.
Evaluation == [nfolds |-> n_folds, nfail |-> plan_fail, sumok |-> plan_sum]

\* if ave_score > best_score
CvBetter(score) == FGt(score, best_score)

\* After the try statement, whether it raised or not: the comparison.
CVCompare ==
    /\ pc = "cv_compare"
    /\ IF CvBetter(ave_score)
         THEN /\ best_score' = ave_score
              /\ best_n_components' = n_components
         ELSE UNCHANGED << best_score, best_n_components >>
    /\ hist' = hist @@ (n_components :> Evaluation)
    /\ used' = {}
    /\ fold_idx' = 0
    /\ plan_fail' = 0
    /\ plan_sum' = 0
    /\ n_components' = n_components + 1
    /\ pc' = "loop"
    /\ UNCHANGED << recVars, cfgVars, envVars, objVars, dicVars, n_folds,
                    total_score, ave_score, outVars >>

\* return self.base_model(best_n_components), in BIC, DIC and CV
SearchReturn ==
    /\ pc = "loop"
    /\ n_components > max_n
    /\ \E ok \in BOOLEAN :
         /\ BaseModel(best_n_components, ok)
         /\ result' = Returned(best_n_components, ok)
    /\ pc' = "done"
    /\ UNCHANGED << recVars, cfgVars, scoreEnv, foldEnv, loopVars, model,
                    search_objs, dicVars, cvVars, hist, first_choice,
                    runs_left >>

SelNext ==
    \/ FixedSelect
    \/ BICBegin \/ SearchTrain \/ BICScore \/ BICScoreRaises
    \/ DICBegin \/ DICScoreSelf \/ DICScoreSelfRaises \/ DICSkipSelf
    \/ DICScoreOther \/ DICScoreOtherRaises \/ DICCompare \/ DICDivideRaises
    \/ CVBegin \/ CVBeginK \/ CVWholeTrain \/ CVWholeScore \/ CVWholeScoreRaises
    \/ CVSplit \/ CVFold \/ CVFoldFitRaises \/ CVFoldScoreRaises \/ CVAverage
    \/ CVCompare
    \/ SearchReturn

Spec == SelInit /\ [][SelNext]_vars

\* ----------------------------------------- select() called a second time
\* The test folds KFold can make of n sequences.
TestSets(n) == { S \in SUBSET (1 .. n) : S # {} /\ S # 1 .. n }

RowsOf(ls, S) == SumSeq([i \in 1 .. Len(ls) |-> IF i \in S THEN ls[i] ELSE 0])

\* A library whose fit raises when the training folds hold fewer rows than
\* the model has states, whose score raises when the test fold holds more
\* rows than the training folds, and whose score is otherwise minus the
\* test fold's rows.
FoldTable(c) ==
    [key \in (c.min_n .. c.max_n) \X TestSets(Len(c.lengths)) |->
        LET train == RowsOf(c.lengths, (1 .. Len(c.lengths)) \ key[2])
            test == RowsOf(c.lengths, key[2])
        IN  IF train < key[1] THEN FitRaise
            ELSE IF test > train THEN Raise
            ELSE Fin(-test)]

ScoreTables(c) ==
    [(c.min_n .. c.max_n) \X (1 .. c.n_words) -> LogLs \cup { Raise }]

TwiceConfigs ==
    FixedConfigs \cup BICConfigs \cup DICConfigs
    \cup { Config("CV", c[1], 1, << 1, 1 >>, c[2], NConstant) :
             c \in LengthLists \X Ranges }

\* Two select() calls on one selector: the library's answers are fixed
\* beforehand, so that both calls get the same ones.
TwiceInit ==
    /\ RecIdle
    /\ \E c \in TwiceConfigs :
         /\ Construct(c)
         /\ scoreEnv \in ScoreTables(c)
         /\ foldEnv = IF c.strategy = "CV" THEN FoldTable(c) ELSE EmptyMap
    /\ trainMemo = EmptyMap
    /\ Entry
    /\ next_obj = 1
    /\ first_choice = None
    /\ runs_left = 1

\* select() has returned and is called again on the same selector.
Reselect ==
    /\ pc = "done"
    /\ runs_left > 0
    /\ first_choice' = Some(best_n_components)
    /\ runs_left' = runs_left - 1
    /\ pc' = "select"
    /\ n_components' = 0 /\ best_score' = NInf /\ best_n_components' = 0
    /\ model' = None /\ search_objs' = {}
    /\ logl' = Fin(0) /\ anti_logl' = Fin(0) /\ word' = 0
    /\ scored_others' = {} /\ others_sum' = 0
    /\ n_folds' = 0 /\ total_score' = Fin(0) /\ ave_score' = Fin(0)
    /\ used' = {} /\ fold_idx' = 0 /\ plan_fail' = 0 /\ plan_sum' = 0
    /\ hist' = EmptyMap
    /\ result' = None
    /\ UNCHANGED << recVars, cfgVars, envVars, next_obj >>

TwiceNext == SelNext \/ Reselect

SpecTwice == TwiceInit /\ [][TwiceNext]_vars

\* ------------------------------------------------- claims on recognize()
\* The keys of item i whose model.score returned a value.
Scored(i) == { c \in DOMAIN outcomes[i] : outcomes[i][c] # Raise }

\* C1: recognize returns two lists of length N, probabilities[i] being the
\* score map of test item i (the lists follow the test items' order), every
\* guess a key of the model map or None, every score map's keys among the
\* model map's, at most M of them.
C1_RecognizeShape ==
    rpc = "done" =>
        /\ Len(guesses) = n_items
        /\ Len(probabilities) = n_items
        /\ \A i \in 1 .. n_items :
             /\ DOMAIN probabilities[i] = Scored(i)
             /\ \A c \in Scored(i) : probabilities[i][c] = outcomes[i][c]
             /\ guesses[i] = None \/ \E c \in Keys(models) : guesses[i] = Some(c)
             /\ DOMAIN probabilities[i] \subseteq Keys(models)
             /\ Cardinality(DOMAIN probabilities[i]) <= Len(models)

\* Two items with different score maps, one scored by no model, under a
\* model map of two categories.
C1_Witness ==
    /\ rpc = "done"
    /\ n_items = 2
    /\ Len(models) = 2
    /\ Scored(1) = {}
    /\ Scored(2) = {2}
    /\ guesses = << None, Some(2) >>

\* C2: per item, a category whose scoring raised is absent from the score
\* map; the guess is the first key, in the map's order, that reaches the
\* maximum over the scored keys; and the guess is None exactly when no key
\* was scored.
C2_GuessIsArgmax ==
    rpc = "done" =>
        \A i \in 1 .. n_items :
            /\ DOMAIN probabilities[i] = Scored(i)
            /\ (guesses[i] = None) <=> (Scored(i) = {})
            /\ Scored(i) # {} =>
                 \E c \in Scored(i) :
                    /\ guesses[i] = Some(c)
                    /\ \A o \in Scored(i) :
                         ~FGt(outcomes[i][o], outcomes[i][c])
                    /\ \A o \in Scored(i) :
                         o < c => FGt(outcomes[i][c], outcomes[i][o])

\* The same with every returned score finite: what the code does achieve.
C2_FiniteScores ==
    rpc = "done" =>
        \A i \in 1 .. n_items :
            (\A c \in Scored(i) : outcomes[i][c].k = "fin") =>
                /\ (guesses[i] = None) <=> (Scored(i) = {})
                /\ Scored(i) # {} =>
                     \E c \in Scored(i) :
                        /\ guesses[i] = Some(c)
                        /\ \A o \in Scored(i) :
                             ~FGt(outcomes[i][o], outcomes[i][c])
                        /\ \A o \in Scored(i) :
                             o < c => FGt(outcomes[i][c], outcomes[i][o])


\* --------------------------------------------------- claims on select()
InRange == min_n .. max_n

\* The K whose evaluation in the search reached its comparison.
Succeeded == { K \in DOMAIN hist : hist[K].fitted }

\* 1000 * (-2 * logL + p * log(N)), p = K^2 + 2*K*D - 1, N the rows.
BicMilli(K) ==
    -2000 * hist[K].logl
    + (K * K + 2 * K * dim - 1) * LogMilli[SumSeq(lengths)]

\* C3: SelectorBIC.select tries every K of [min_n_components,
\* max_n_components] in increasing order, discards the K whose training or
\* scoring fails, and returns the model of the K with the least
\* -2*logL + p*log(N) among the others, p = K^2 + 2*K*D - 1 and N the number
\* of rows; of two K with the same score the smaller one wins.
C3_BicSelectsMinimum ==
    strategy = "BIC" =>
        /\ pc \in { "loop", "score" } =>
             DOMAIN hist = min_n .. (n_components - 1)
        /\ pc = "done" =>
             /\ DOMAIN hist = InRange
             /\ IF Succeeded = {}
                  THEN best_n_components = 0 /\ result = None
                  ELSE /\ best_n_components \in Succeeded
                       /\ \A K \in Succeeded :
                            /\ BicMilli(best_n_components) <= BicMilli(K)
                            /\ BicMilli(K) = BicMilli(best_n_components)
                                 => best_n_components <= K
                       /\ result # None
                       /\ result[1].k = best_n_components

\* K = 2 wins over K = 3 although K = 3 has the higher log-likelihood, on
\* data with more rows than sequences.
C3_Witness ==
    /\ strategy = "BIC"
    /\ pc = "done"
    /\ { 2, 3 } \subseteq Succeeded
    /\ hist[3].logl > hist[2].logl
    /\ best_n_components = 2
    /\ SumSeq(lengths) > Len(lengths)
    /\ result # None

\* No K of a BIC, DIC or CV search succeeded: in CV, every fold of every K
\* fails.
NoneSucceeded ==
    /\ DOMAIN hist = InRange
    /\ IF strategy = "CV"
         THEN \A K \in InRange : hist[K].nfail = hist[K].nfolds
         ELSE Succeeded = {}

\* C4: when no K of the range is trained and scored successfully, BIC, DIC
\* and CV return None, never a model.
C4_NoSelection ==
    (pc = "done" /\ strategy \in { "BIC", "DIC", "CV" } /\ NoneSucceeded)
        => result = None

\* C5: SelectorDIC.select on a corpus of one word: the division by zero is
\* caught at every K, no K is chosen, and select returns None.
C5_DicSingleWord ==
    (strategy = "DIC" /\ n_words = 1) =>
        /\ best_n_components = 0
        /\ best_score = NInf
        /\ pc = "done" =>
             /\ DOMAIN hist = InRange
             /\ Succeeded = {}
             /\ result = None

\* A one-word corpus whose model was trained and scored on its own data
\* for every K: each K reached the division.
C5_Witness ==
    /\ strategy = "DIC"
    /\ n_words = 1
    /\ pc = "done"
    /\ max_n > min_n
    /\ \A K \in InRange : hist[K].self_ok
    /\ result = None

\* C6: in SelectorCV.select a K all of whose folds fail is never the chosen
\* best_n_components.
C6_AllFoldsFailNeverWins ==
    (pc = "done" /\ strategy = "CV") =>
        \A K \in DOMAIN hist :
            hist[K].nfail = hist[K].nfolds => best_n_components # K

\* C7: in SelectorCV.select with two sequences or more, a fold whose
\* training or scoring fails does not end the K's evaluation: all the folds
\* are gone through, and when some fold succeeded the K's score is made of
\* the successful folds' log-likelihoods.
C7_FailedFoldIsSkipped ==
    (pc = "cv_compare" /\ n_folds >= 2) =>
        /\ fold_idx = n_folds
        /\ plan_fail < n_folds =>
             \/ ave_score = FDivInt(Fin(plan_sum), n_folds)
             \/ ave_score = FDivInt(Fin(plan_sum), n_folds - plan_fail)

\* C8: a second select() on the same selector, with the same library
\* answers, chooses the K the first one chose.
C8_SameChoiceTwice ==
    (pc = "done" /\ first_choice # None)
        => first_choice = Some(best_n_components)

\* (number of categories - 1) * (logL - sum of the others / (number of
\* categories - 1))
DicTimesOthers(K) == hist[K].logl * (n_words - 1) - hist[K].anti

\* C9: SelectorDIC.select scores the model of each K on every other word's
\* data and never on the target's as one of the others; the K's score is
\* logL minus the sum of the others' log-likelihoods over (number of words
\* - 1); the highest score among the K that trained and scored wins, the
\* smaller K on ties; a K one of whose scorings fails is skipped.
C9_DicSelectsMaximum ==
    strategy = "DIC" =>
        /\ this_word \notin scored_others
        /\ pc = "others" =>
             /\ anti_logl = Fin(others_sum)
             /\ word > n_words => scored_others = (1 .. n_words) \ { this_word }
        /\ pc = "done" =>
             /\ DOMAIN hist = InRange
             /\ IF Succeeded = {}
                  THEN best_n_components = 0
                  ELSE /\ n_words > 1
                       /\ best_n_components \in Succeeded
                       /\ \A K \in Succeeded :
                            /\ DicTimesOthers(best_n_components)
                                 >= DicTimesOthers(K)
                            /\ DicTimesOthers(K)
                                 = DicTimesOthers(best_n_components)
                                 => best_n_components <= K

\* K = 3 wins over K = 2 with the same log-likelihood on the target, by the
\* other two words' scores alone.
C9_Witness ==
    /\ strategy = "DIC"
    /\ pc = "done"
    /\ n_words = 3
    /\ { 2, 3 } \subseteq Succeeded
    /\ hist[2].logl = hist[3].logl
    /\ best_n_components = 3

\* C10: a model returned by BIC, DIC or CV was fitted by the final
\* base_model call to the word's whole data, with the chosen number of
\* states, which lies in the range; it is none of the models the search
\* trained; and when that last training fails, select returns None.
C10_ReturnedModelIsFresh ==
    (pc = "done" /\ strategy \in { "BIC", "DIC", "CV" }) =>
        /\ result # None =>
             /\ result[1].whole
             /\ result[1].k = best_n_components
             /\ best_n_components \in InRange
             /\ result[1].id \notin search_objs
        /\ (best_n_components \in DOMAIN trainMemo
              /\ ~trainMemo[best_n_components]) => result = None

\* A CV search over folds, which trained models, returns a model.
C10_Witness ==
    /\ strategy = "CV"
    /\ pc = "done"
    /\ n_folds >= 2
    /\ search_objs # {}
    /\ result # None
====
